---- MODULE Spec2Model ----
(***************************************************************************)
(* Tech Stock Tracker: the periodic refresh-and-snapshot mechanism of      *)
(* app.py (WebStockTracker, the Flask handlers, initialize_app) on top of  *)
(* the concurrent fetcher of stock_data.py (StockDataFetcher).             *)
(*                                                                         *)
(* Threads interleave at every read or write of the module globals         *)
(* stock_data and last_update and of tracker.running; code between two     *)
(* such accesses only touches thread-local values and is folded into the   *)
(* step that follows it.  A dict is modelled by its value (a sequence of   *)
(* key/value items in insertion order): fetch_all_stocks fills a fresh     *)
(* local dict and nothing writes to a dict after it has been returned.     *)
(* Every quote carries a ghost field "cycle", the number of the            *)
(* fetch_stock_data invocation that produced it; last_update is modelled   *)
(* by the number of the invocation that executed datetime.now().           *)
(***************************************************************************)
EXTENDS Integers, Sequences, FiniteSets, TLC

\* ------------------------------------------------------------------ bounds
MaxSymbols == 2        \* symbols of Config.SYMBOLS tracked by the application runs
MaxFetchSymbols == 3   \* longest symbol list handed to the fetcher on its own
MaxLoopCycles == 1     \* refresh cycles of a background loop thread while requests are served
MaxSchedCycles == 2    \* refresh cycles of the background loop running on its own
MaxSortSymbols == 3    \* longest snapshot handed to the presenter on its own
MaxManual == 1         \* POST /api/refresh requests the handler thread serves

\* ------------------------------------------------------- program constants
REFRESH_INTERVAL == 60
RETRY_SLEEP == 30
MILLION == 1000000

ConfigSymbols ==
  <<"GOOGL", "AMZN", "AAPL", "META", "MSFT", "NVDA", "TSLA", "ORCL", "AVGO">>

COMPANY_NAMES ==
  [s \in {ConfigSymbols[i] : i \in 1..Len(ConfigSymbols)} |->
     CASE s = "GOOGL" -> "Alphabet"
       [] s = "AMZN"  -> "Amazon"
       [] s = "AAPL"  -> "Apple"
       [] s = "META"  -> "Meta Platforms"
       [] s = "MSFT"  -> "Microsoft"
       [] s = "NVDA"  -> "Nvidia"
       [] s = "TSLA"  -> "Tesla"
       [] s = "ORCL"  -> "Oracle"
       [] OTHER       -> "Broadcom"]

\* Python None for an optional number, and a key missing from the provider's
\* info mapping.
None == -1

\* ------------------------------------------------------------ dict values
\* A dict is a sequence of items [key, value] in insertion order.
EmptyDict == << >>

DictKeys(d) == {d[i].key : i \in DOMAIN d}

\* d[k] = v: a new key is appended, an existing key keeps its position.
DictSet(d, k, v) ==
  IF k \in DictKeys(d)
    THEN [i \in DOMAIN d |-> IF d[i].key = k THEN [key |-> k, value |-> v] ELSE d[i]]
    ELSE Append(d, [key |-> k, value |-> v])

\* -------------------------------------------------------------- StockInfo
StockInfo(symbol, name, price, change, percent, volume, cap, prev, cycle) ==
  [symbol |-> symbol, company_name |-> name, price |-> price,
   change |-> change, change_percent |-> percent, volume |-> volume,
   market_cap |-> cap, previous_close |-> prev, cycle |-> cycle]

\* ------------------------------------------------- the provider (yfinance)
\* One provider answer for one symbol: the call raises, or it yields the
\* rows of ticker.history(period="2d") and the fields of ticker.info.
Response(raises, hist, previousClose, marketCap) ==
  [raises |-> raises, hist |-> hist, previousClose |-> previousClose,
   marketCap |-> marketCap]

Row(close, volume) == [Close |-> close, Volume |-> volume]

NoAnswer == Response(FALSE, << >>, None, None)
RespRaise == Response(TRUE, << >>, None, None)
RespEmpty == Response(FALSE, << >>, 4, 50)
RespOneRow == Response(FALSE, <<Row(5, 2 * MILLION)>>, 4, None)
RespOneRowNoPrev == Response(FALSE, <<Row(5, 2 * MILLION)>>, None, 50)
RespTwoRows == Response(FALSE, <<Row(4, MILLION), Row(2, 3 * MILLION)>>, 5, 50)
RespZeroPrev == Response(FALSE, <<Row(0, 0), Row(2, MILLION)>>, None, None)

\* The provider answers the application runs draw from, and those the
\* fetcher is exercised with on its own.
AppResponses == {RespRaise, RespTwoRows}
SortResponses == {RespRaise, RespOneRow, RespTwoRows, RespZeroPrev}
\* The latest close is 0 (a halted or delisted symbol).
RespZeroClose == Response(FALSE, <<Row(4, MILLION), Row(0, 0)>>, 4, 50)

CountResponses == {RespRaise, RespTwoRows, RespZeroClose}

\* A volume that is not a whole number of millions.
RespOddVolume == Response(FALSE, <<Row(2, MILLION), Row(3, MILLION + 500000)>>, 4, 50)

FormatResponses ==
  {RespRaise, RespOneRowNoPrev, RespTwoRows, RespOddVolume}

FetchResponses ==
  {RespRaise, RespEmpty, RespOneRow, RespOneRowNoPrev, RespTwoRows, RespZeroPrev}

\* ------------------------------------------------------- StockDataFetcher
\* Result of one per-symbol task as asyncio.gather hands it back: a
\* StockInfo, or the exception the task raised.
NoStock == StockInfo("", "", 0, 0, 0, 0, None, 0, 0)
Pending == [state |-> "pending", value |-> NoStock]
Raised == [state |-> "exception", value |-> NoStock]
Returned(stock) == [state |-> "ok", value |-> stock]
\* A task whose provider call never returns: run_in_executor (line 100) is
\* awaited without a timeout.
Hung == [state |-> "hung", value |-> NoStock]

IsException(result) == result.state = "exception"

\* Mutant: the ratio is not scaled to a percentage.
PercentChange_NoScale(change, previous_close) ==
  IF previous_close # 0 THEN change \div previous_close ELSE 0

\* Line 164; the provider values used divide without remainder.
PercentChange(change, previous_close) ==
  IF previous_close # 0 THEN (change * 100) \div previous_close ELSE 0

_fetch_single_stock(symbol, resp, cycle) ==
  IF resp.raises \/ Len(resp.hist) < 1
    THEN Raised
    ELSE LET hist == resp.hist
             current_price == hist[Len(hist)].Close
             previous_close ==
               IF Len(hist) >= 2 THEN hist[Len(hist) - 1].Close
               ELSE IF resp.previousClose # None THEN resp.previousClose
               ELSE current_price
             change == current_price - previous_close
             change_percent == PercentChange(change, previous_close)
             volume == hist[Len(hist)].Volume
             company_name ==
               IF symbol \in DOMAIN COMPANY_NAMES THEN COMPANY_NAMES[symbol]
               ELSE symbol
         IN Returned(StockInfo(symbol, company_name, current_price, change,
                               change_percent, volume, resp.marketCap,
                               previous_close, cycle))

\* Mutant: the placeholder carries None instead of zeros.
_create_error_stock_info_Nones(symbol, cycle) ==
  StockInfo(symbol,
            IF symbol \in DOMAIN COMPANY_NAMES THEN COMPANY_NAMES[symbol] ELSE symbol,
            None, None, None, 0, None, None, cycle)

_create_error_stock_info(symbol, cycle) ==
  StockInfo(symbol,
            IF symbol \in DOMAIN COMPANY_NAMES THEN COMPANY_NAMES[symbol] ELSE symbol,
            0, 0, 0, 0, None, 0, cycle)

\* Mutant: gather without return_exceptions; the first exception propagates.
Gather_Propagate(results) ==
  [raised |-> \E i \in DOMAIN results : results[i].state = "exception",
   results |-> results]

\* asyncio.gather(*tasks, return_exceptions=True): once every task has
\* settled, the results in task order, exceptions included as values.
Gather(results) == [raised |-> FALSE, results |-> results]

\* Mutant: a failed symbol is skipped instead of getting a placeholder.
RECURSIVE ProcessResults_SkipFailed(_, _, _, _, _)
ProcessResults_SkipFailed(syms, results, cycle, i, d) ==
  IF i > Len(results) THEN d
  ELSE ProcessResults_SkipFailed(syms, results, cycle, i + 1,
         IF results[i].state = "exception" THEN d
         ELSE DictSet(d, syms[i], results[i].value))

\* Mutant: result i is stored under the symbol counted from the other end
\* of the list.
RECURSIVE ProcessResults_Reversed(_, _, _, _, _)
ProcessResults_Reversed(syms, results, cycle, i, d) ==
  IF i > Len(results) THEN d
  ELSE LET symbol == syms[Len(syms) + 1 - i]
           entry == IF IsException(results[i])
                      THEN _create_error_stock_info(symbol, cycle)
                      ELSE results[i].value
       IN ProcessResults_Reversed(syms, results, cycle, i + 1,
                                  DictSet(d, symbol, entry))

\* Lines 63-76: the result loop of fetch_all_stocks over enumerate(results).
RECURSIVE ProcessResults(_, _, _, _, _)
ProcessResults(syms, results, cycle, i, d) ==
  IF i > Len(results) THEN d
  ELSE LET symbol == syms[i]
           entry == IF IsException(results[i])
                      THEN _create_error_stock_info(symbol, cycle)
                      ELSE results[i].value
       IN ProcessResults(syms, results, cycle, i + 1, DictSet(d, symbol, entry))

\* Lines 64-75: the two counters of the result loop, as they stand after it.
successful_count(results) ==
  Cardinality({i \in DOMAIN results : ~IsException(results[i])})

error_count(results) ==
  Cardinality({i \in DOMAIN results : IsException(results[i])})

\* What fetch_all_stocks hands to its caller once all tasks have settled.
fetch_all_stocks(syms, results, cycle) ==
  LET g == Gather(results)
  IN IF g.raised THEN [raised |-> TRUE, dict |-> EmptyDict]
     ELSE [raised |-> FALSE,
           dict |-> ProcessResults(syms, g.results, cycle, 1, EmptyDict)]

\* ------------------------------------------------------------- Presenter
\* a / b of Python for ints a >= 0 and b > 0: the quotient, held exactly as
\* its whole part and the remainder over b.
TrueDiv(a, b) == [whole |-> a \div b, rest |-> a % b]

\* Mutant: floor division, volume // 1_000_000.
FormatRecord_FloorDiv(stock) ==
  [symbol |-> stock.symbol, company_name |-> stock.company_name,
   price |-> stock.price, change |-> stock.change,
   change_percent |-> stock.change_percent, volume |-> stock.volume,
   volume_millions |-> [whole |-> stock.volume \div MILLION, rest |-> 0],
   is_positive |-> stock.change > 0, is_negative |-> stock.change < 0,
   market_cap |-> stock.market_cap, cycle |-> stock.cycle]

\* One element of the list _format_stock_data_for_web builds (lines 123-134).
FormatRecord(stock) ==
  [symbol |-> stock.symbol, company_name |-> stock.company_name,
   price |-> stock.price, change |-> stock.change,
   change_percent |-> stock.change_percent, volume |-> stock.volume,
   volume_millions |-> TrueDiv(stock.volume, MILLION),
   is_positive |-> stock.change > 0, is_negative |-> stock.change < 0,
   market_cap |-> stock.market_cap, cycle |-> stock.cycle]

\* Ordinal (code point) order of the display names, as str comparison does.
NameRank(name) ==
  CASE name = "Alphabet" -> 1
    [] name = "Amazon" -> 2
    [] name = "Apple" -> 3
    [] name = "Broadcom" -> 4
    [] name = "Meta Platforms" -> 5
    [] name = "Microsoft" -> 6
    [] name = "Nvidia" -> 7
    [] name = "Oracle" -> 8
    [] name = "Tesla" -> 9
    [] OTHER -> 0

\* Mutant: the price sort without reverse=True.
SortKey_Ascending(rec, sort_by) ==
  CASE sort_by = "name" -> NameRank(rec.company_name)
    [] sort_by = "price" -> rec.price
    [] sort_by = "change" -> 0 - rec.change_percent
    [] OTHER -> 0

\* The sort key of a record; reverse=True is modelled by negating it.
SortKey(rec, sort_by) ==
  CASE sort_by = "name" -> NameRank(rec.company_name)
    [] sort_by = "price" -> 0 - rec.price
    [] sort_by = "change" -> 0 - rec.change_percent
    [] OTHER -> 0

\* sorted(): stable, so a record goes after every record whose key is not larger.
RECURSIVE InsertSorted(_, _, _)
InsertSorted(sorted, rec, sort_by) ==
  IF sorted = << >> THEN <<rec>>
  ELSE IF SortKey(rec, sort_by) < SortKey(Head(sorted), sort_by)
    THEN <<rec>> \o sorted
    ELSE <<Head(sorted)>> \o InsertSorted(Tail(sorted), rec, sort_by)

RECURSIVE Sorted(_, _)
Sorted(recs, sort_by) ==
  IF recs = << >> THEN << >>
  ELSE InsertSorted(Sorted(SubSeq(recs, 1, Len(recs) - 1), sort_by),
                    recs[Len(recs)], sort_by)

\* Mutant: an unrecognised key falls back to the name sort.
SortFormatted_DefaultName(formatted_data, sort_by) ==
  IF sort_by \in {"name", "price", "change"}
    THEN Sorted(formatted_data, sort_by)
    ELSE Sorted(formatted_data, "name")

\* Lines 145-152 of sort_stocks, applied to the formatted list.
SortFormatted(formatted_data, sort_by) ==
  IF sort_by \in {"name", "price", "change"}
    THEN Sorted(formatted_data, sort_by)
    ELSE formatted_data

SortKeys == {"name", "price", "change", "volume"}

\* ---------------------------------------------------------------- threads
\* The main thread (initialize_app, then app.run), the loop threads that
\* start_background_refresh creates, and a request thread of the threaded
\* Flask server, which serves GET /api/stocks and POST /api/refresh requests
\* one after the other, each concurrently with the background loop.
\* Starters are threads that call tracker.start_background_refresh() at the
\* same time; they take part in SpecStart only.
Main == <<"main", 0>>
Starters == {<<"start", 1>>, <<"start", 2>>}
Loops == {<<"loop", 1>>, <<"loop", 2>>}
Handlers == {<<"request", 1>>}
Threads == {Main} \cup Loops \cup Handlers \cup Starters

\* Threads that run fetch_stock_data.
Fetchers == {Main} \cup Loops \cup Handlers

VARIABLES
  config,         \* the attributes of class Config that validate_config reads
  symbols,        \* config.SYMBOLS = data_fetcher.symbols
  stock_data,     \* module global stock_data (app.py:32)
  last_update,    \* module global last_update (app.py:33)
  running,        \* tracker.running
  refresh_thread, \* tracker.refresh_thread: number of the loop thread; 0 is None
  nthreads,       \* background loop threads created so far
  ncalls,         \* per thread: fetch_stock_data invocations made
  slept,          \* per loop thread: argument of its latest time.sleep; 0 is none
  pc,             \* per thread: position in its code
  loc             \* per thread: its local variables

vars == <<config, symbols, stock_data, last_update, running, refresh_thread,
          nthreads, ncalls, slept, pc, loc>>

\* A Python value of class Config: its type and what it holds (a sequence for
\* SYMBOLS, a number for the others; 0 where the type holds none).
Val(type, value) == [type |-> type, value |-> value]

\* config.py lines 12-42 with the symbol list syms.
ConfigOf(syms) ==
  [SYMBOLS |-> Val("list", syms),
   REFRESH_INTERVAL |-> Val("int", REFRESH_INTERVAL),
   PRECISION |-> Val("int", 2),
   VOLUME_PRECISION |-> Val("int", 1)]

\* The name of a refresh cycle: the thread and the number of its invocation.
NoCycle == <<"none", 0, 0>>
CycleOf(t, n) == <<t[1], t[2], n>>

\* Locals of one thread.  cycle: its fetch_stock_data invocation; results:
\* the gather results; it: the dict being iterated by
\* _format_stock_data_for_web; data: the list built; successful, total,
\* success, last_update: the fields of the value fetch_stock_data returns;
\* error: that value, or the 500 payload of api_refresh, has an 'error' field;
\* raised: a cycle-level exception reached an except clause;
\* sort_by, total_stocks: of a GET /api/stocks request;
\* background_refresh_running: of a GET /api/status response; handler: the
\* view function a request thread is running.
NoLocals ==
  [handler |-> "", cycle |-> NoCycle, results |-> << >>, answers |-> << >>,
   it |-> EmptyDict, data |-> << >>,
   successful |-> 0, total |-> 0, success |-> FALSE, error |-> FALSE,
   last_update |-> NoCycle,
   raised |-> FALSE, sort_by |-> "name", total_stocks |-> 0,
   background_refresh_running |-> FALSE]

\* Mutant: the background refresh is started before the initial fetch.
InitializeAppPhases_StartFirst == <<"start", "fetch">>

\* initialize_app (lines 352-375): the initial fetch, then the start of the
\* background refresh; app.run (line 385) serves requests after it.
InitializeAppPhases == <<"fetch", "start">>

PhaseEntry(k) ==
  IF k > Len(InitializeAppPhases) THEN "serving"
  ELSE IF InitializeAppPhases[k] = "fetch" THEN "call" ELSE "L156"

AfterPhase(name) ==
  PhaseEntry(1 + CHOOSE k \in DOMAIN InitializeAppPhases :
                   InitializeAppPhases[k] = name)

StartPc(t) ==
  CASE t = Main -> PhaseEntry(1)
    [] t \in Loops -> "off"
    [] t \in Starters -> "unused"
    [] OTHER -> "idle"

InitCommon ==
  /\ config = ConfigOf(symbols)
  /\ stock_data = EmptyDict
  /\ last_update = NoCycle
  /\ running = FALSE
  /\ refresh_thread = 0
  /\ nthreads = 0
  /\ ncalls = [t \in Threads |-> 0]
  /\ slept = [t \in Loops |-> 0]
  /\ loc = [t \in Threads |-> NoLocals]

\* The application: python app.py, tracking the first MaxSymbols symbols.
Init ==
  /\ symbols = SubSeq(ConfigSymbols, 1, MaxSymbols)
  /\ InitCommon
  /\ pc = [t \in Threads |-> StartPc(t)]

\* ------------------------------------------------- fetch_stock_data (55-116)
\* Line 68, entry of fetch_all_stocks: one task per symbol is launched.
FetchBegin(t) ==
  /\ pc[t] = "call"
  /\ ncalls' = [ncalls EXCEPT ![t] = @ + 1]
  /\ loc' = [loc EXCEPT ![t] = [NoLocals EXCEPT
                !.handler = loc[t].handler,
                !.cycle = CycleOf(t, ncalls[t] + 1),
                !.results = [i \in 1..Len(symbols) |-> Pending],
                !.answers = [i \in 1..Len(symbols) |-> NoAnswer]]]
  /\ pc' = [pc EXCEPT ![t] = "gather"]
  /\ UNCHANGED <<config, symbols, stock_data, last_update, running, refresh_thread,
                 nthreads, slept>>

\* Line 68: fetch_all_stocks raises before any task is awaited (a structural
\* failure); control passes to the except clause of line 97.
FetchFault(t) ==
  /\ pc[t] = "call"
  /\ ncalls' = [ncalls EXCEPT ![t] = @ + 1]
  /\ loc' = [loc EXCEPT ![t] = [NoLocals EXCEPT
                !.handler = loc[t].handler,
                !.cycle = CycleOf(t, ncalls[t] + 1), !.raised = TRUE]]
  /\ pc' = [pc EXCEPT ![t] = "L115"]
  /\ UNCHANGED <<config, symbols, stock_data, last_update, running, refresh_thread,
                 nthreads, slept>>

\* One per-symbol task settles (lines 86-100, 102-217), in any order.
TaskSettle(t, i, resp) ==
  /\ pc[t] = "gather"
  /\ i \in DOMAIN loc[t].results
  /\ loc[t].results[i] = Pending
  /\ loc' = [loc EXCEPT ![t].results[i] =
                _fetch_single_stock(symbols[i], resp, loc[t].cycle),
                        ![t].answers[i] = resp]
  /\ UNCHANGED <<config, symbols, stock_data, last_update, running, refresh_thread,
                 nthreads, ncalls, slept, pc>>

AllSettled(t) ==
  \A i \in DOMAIN loc[t].results : loc[t].results[i] \notin {Pending, Hung}

\* The provider never answers the request of task i (ticker.info or
\* ticker.history, lines 128 and 142, block): the task never settles.
TaskHang(t, i) ==
  /\ pc[t] = "gather"
  /\ i \in DOMAIN loc[t].results
  /\ loc[t].results[i] = Pending
  /\ loc' = [loc EXCEPT ![t].results[i] = Hung]
  /\ UNCHANGED <<config, symbols, stock_data, last_update, running, refresh_thread,
                 nthreads, ncalls, slept, pc>>

\* The results gather hands back when the tasks still pending settle with
\* the provider answers resps.
Settled(t, resps) ==
  [i \in DOMAIN loc[t].results |->
     IF loc[t].results[i] = Pending
       THEN _fetch_single_stock(symbols[i], resps[i], loc[t].cycle)
       ELSE loc[t].results[i]]

\* The provider answers behind those results.
Answered(t, resps) ==
  [i \in DOMAIN loc[t].results |->
     IF loc[t].results[i] = Pending THEN resps[i] ELSE loc[t].answers[i]]

\* Lines 60-84 and line 68: the tasks still pending settle, gather completes,
\* fetch_all_stocks builds and returns its dict, and the caller binds the
\* global stock_data to it.
FetchAllReturn(t, resps) ==
  /\ pc[t] = "gather"
  /\ \A i \in DOMAIN resps : loc[t].results[i] # Pending => resps[i] = RespRaise
  /\ LET f == fetch_all_stocks(symbols, Settled(t, resps), loc[t].cycle)
     IN IF f.raised
          THEN /\ loc' = [loc EXCEPT ![t].raised = TRUE,
                                      ![t].results = Settled(t, resps),
                                      ![t].answers = Answered(t, resps)]
               /\ pc' = [pc EXCEPT ![t] = "L115"]
               /\ UNCHANGED stock_data
          ELSE /\ stock_data' = f.dict
               /\ loc' = [loc EXCEPT ![t].results = Settled(t, resps),
                                      ![t].answers = Answered(t, resps)]
               /\ pc' = [pc EXCEPT ![t] = "L69"]
  /\ UNCHANGED <<config, symbols, last_update, running, refresh_thread, nthreads,
                 ncalls, slept>>

\* Line 69: last_update = datetime.now().
StampLastUpdate(t) ==
  /\ pc[t] = "L69"
  /\ last_update' = loc[t].cycle
  /\ pc' = [pc EXCEPT ![t] = "L72"]
  /\ loc' = [loc EXCEPT ![t].results = << >>, ![t].answers = << >>]
  /\ UNCHANGED <<config, symbols, stock_data, running, refresh_thread, nthreads,
                 ncalls, slept>>

CountSuccessful(d) == Cardinality({i \in DOMAIN d : d[i].value.price > 0})

\* Line 72: successful = sum(1 for stock in stock_data.values() if stock.price > 0).
CountStep(t) ==
  /\ pc[t] = "L72"
  /\ loc' = [loc EXCEPT ![t].successful = CountSuccessful(stock_data)]
  /\ pc' = [pc EXCEPT ![t] = "L73"]
  /\ UNCHANGED <<config, symbols, stock_data, last_update, running, refresh_thread,
                 nthreads, ncalls, slept>>

\* Line 73: total = len(stock_data).
TotalStep(t) ==
  /\ pc[t] = "L73"
  /\ loc' = [loc EXCEPT ![t].total = Len(stock_data)]
  /\ pc' = [pc EXCEPT ![t] = "L91"]
  /\ UNCHANGED <<config, symbols, stock_data, last_update, running, refresh_thread,
                 nthreads, ncalls, slept>>

\* Line 122: stock_data.items() is evaluated once; the loop then walks that dict.
FormatBegin(t) ==
  /\ pc[t] \in {"L91", "L143"}
  /\ loc' = [loc EXCEPT ![t].it = stock_data, ![t].data = << >>]
  /\ pc' = [pc EXCEPT ![t] = "L123"]
  /\ UNCHANGED <<config, symbols, stock_data, last_update, running, refresh_thread,
                 nthreads, ncalls, slept>>

\* sort_stocks is the caller of _format_stock_data_for_web.
IsReader(t) == loc[t].handler = "api_stocks"

\* The view function index, the other caller of sort_stocks (line 209).
IsIndex(t) == loc[t].handler = "index"

\* The thread is inside sort_stocks.
InSortStocks(t) == IsReader(t) \/ IsIndex(t)

\* Where sort_stocks returns to: line 209 of index, or line 238 of api_stocks,
\* whose next read of a global is at line 252.
AfterSort(t) == IF IsIndex(t) THEN "L209" ELSE "L252"

\* Mutant: every iteration looks the global up again.
IterationSource_Global(t) == stock_data

\* The dict the loop of line 122 takes its next item from.
IterationSource(t) == loc[t].it

\* Lines 122-136: one iteration; after the last one the list is returned, and
\* for a GET request sort_stocks (lines 145-152) sorts it by the request's
\* sort parameter.
FormatStep(t, sort_by) ==
  /\ pc[t] = "L123"
  /\ LET k == Len(loc[t].data) + 1
         src == IterationSource(t)
         data == Append(loc[t].data, FormatRecord(src[k].value))
         last == k >= Len(src)
     IN /\ k \in DOMAIN src
        /\ (InSortStocks(t) /\ last) \/ sort_by = "name"
        /\ loc' = [loc EXCEPT
                      ![t].data = IF last /\ InSortStocks(t)
                                    THEN SortFormatted(data, sort_by) ELSE data,
                      ![t].sort_by = sort_by,
                      ![t].it = IF last THEN EmptyDict ELSE @]
        /\ pc' = [pc EXCEPT ![t] =
                      IF ~last THEN "L123"
                      ELSE IF InSortStocks(t) THEN AfterSort(t) ELSE "L92"]
  /\ UNCHANGED <<config, symbols, stock_data, last_update, running, refresh_thread,
                 nthreads, ncalls, slept>>

\* Lines 89-95: the success value; line 92 reads the global last_update.
ReturnSuccess(t) ==
  /\ pc[t] = "L92"
  /\ loc' = [loc EXCEPT ![t].success = TRUE, ![t].last_update = last_update]
  /\ pc' = [pc EXCEPT ![t] = "ret"]
  /\ UNCHANGED <<config, symbols, stock_data, last_update, running, refresh_thread,
                 nthreads, ncalls, slept>>

\* Mutant: fetch_stock_data without its except clause; the exception is
\* left unhandled.
ReturnFailure_Propagate(t) ==
  /\ pc[t] = "L115"
  /\ pc' = [pc EXCEPT ![t] = "unhandled"]
  /\ UNCHANGED <<config, symbols, stock_data, last_update, running, refresh_thread,
                 nthreads, ncalls, slept, loc>>

\* Mutant: the except clause stamps last_update as the success path does.
ReturnFailure_Stamp(t) ==
  /\ pc[t] = "L115"
  /\ last_update' = loc[t].cycle
  /\ loc' = [loc EXCEPT ![t].success = FALSE,
                        ![t].last_update = loc[t].cycle,
                        ![t].error = TRUE,
                        ![t].results = << >>, ![t].answers = << >>]
  /\ pc' = [pc EXCEPT ![t] = "ret"]
  /\ UNCHANGED <<config, symbols, stock_data, running, refresh_thread,
                 nthreads, ncalls, slept>>

\* Lines 97-116: the except clause; line 115 reads the global last_update.
ReturnFailure(t) ==
  /\ pc[t] = "L115"
  /\ loc' = [loc EXCEPT ![t].success = FALSE, ![t].last_update = last_update,
                        ![t].error = TRUE,
                        ![t].results = << >>, ![t].answers = << >>]
  /\ pc' = [pc EXCEPT ![t] = "ret"]
  /\ UNCHANGED <<config, symbols, stock_data, last_update, running, refresh_thread,
                 nthreads, ncalls, slept>>

FetchStockData(t) ==
  \/ FetchBegin(t)
  \/ FetchFault(t)
  \/ \E resps \in [1..Len(symbols) -> AppResponses] : FetchAllReturn(t, resps)
  \/ StampLastUpdate(t)
  \/ CountStep(t)
  \/ TotalStep(t)
  \/ FormatBegin(t)
  \/ FormatStep(t, "name")
  \/ ReturnSuccess(t)
  \/ ReturnFailure(t)

\* A fault outside fetch_stock_data: asyncio.new_event_loop(),
\* run_until_complete or loop.close() raises around the call (app.py lines
\* 175-178, 268-271, 356-359); the caller's own except clause takes over.
CallerFault(t) ==
  /\ pc[t] = "call"
  /\ pc' = [pc EXCEPT ![t] =
               CASE t = Main -> AfterPhase("fetch")
                 [] t \in Loops -> "L192"
                 [] OTHER -> "L293"]
  /\ loc' = [loc EXCEPT ![t] = [NoLocals EXCEPT !.handler = loc[t].handler,
                                                !.raised = TRUE]]
  /\ UNCHANGED <<config, symbols, stock_data, last_update, running, refresh_thread,
                 nthreads, ncalls, slept>>

\* ------------------------------------------------ initialize_app (347-376)
\* Lines 361-372: the initial fetch has returned and its outcome is logged.
InitFetchDone ==
  /\ pc[Main] = "ret"
  /\ pc' = [pc EXCEPT ![Main] = AfterPhase("fetch")]
  /\ loc' = [loc EXCEPT ![Main] = NoLocals]
  /\ UNCHANGED <<config, symbols, stock_data, last_update, running, refresh_thread,
                 nthreads, ncalls, slept>>

\* ------------------------------------- start_background_refresh (154-163)
\* Where the caller of start_background_refresh continues.
AfterStart(t) == IF t = Main THEN AfterPhase("start") ELSE "done"

\* Line 156: if not self.running.
StartCheck(t) ==
  /\ pc[t] = "L156"
  /\ pc' = [pc EXCEPT ![t] = IF ~running THEN "L157" ELSE AfterStart(t)]
  /\ UNCHANGED <<config, symbols, stock_data, last_update, running, refresh_thread,
                 nthreads, ncalls, slept, loc>>

\* Line 157: self.running = True.
StartSetRunning(t) ==
  /\ pc[t] = "L157"
  /\ running' = TRUE
  /\ pc' = [pc EXCEPT ![t] = "L158"]
  /\ UNCHANGED <<config, symbols, stock_data, last_update, refresh_thread, nthreads,
                 ncalls, slept, loc>>

\* Lines 158-159: a new Thread running _background_refresh_loop is started.
StartThread(t) ==
  /\ pc[t] = "L158"
  /\ <<"loop", nthreads + 1>> \in Loops
  /\ nthreads' = nthreads + 1
  /\ refresh_thread' = nthreads + 1
  /\ pc' = [pc EXCEPT ![t] = AfterStart(t),
                      ![<<"loop", nthreads + 1>>] = "L169"]
  /\ UNCHANGED <<config, symbols, stock_data, last_update, running, ncalls, slept, loc>>

start_background_refresh(t) ==
  \/ StartCheck(t)
  \/ StartSetRunning(t)
  \/ StartThread(t)

\* ------------------------------------ _background_refresh_loop (165-192)
\* Mutant: while True; the flag is not read.
LoopTop_IgnoreFlag(t, cycles) ==
  /\ pc[t] = "L169"
  /\ ncalls[t] < cycles
  /\ pc' = [pc EXCEPT ![t] = "call"]
  /\ loc' = [loc EXCEPT ![t] = NoLocals]
  /\ UNCHANGED <<config, symbols, stock_data, last_update, running, refresh_thread,
                 nthreads, ncalls, slept>>

\* Line 169: while self.running; a cycle begins or the loop ends. The run is
\* followed for the first cycles cycles of the thread.
LoopTop(t, cycles) ==
  /\ pc[t] = "L169"
  /\ running => ncalls[t] < cycles
  /\ pc' = [pc EXCEPT ![t] = IF running THEN "call" ELSE "exit"]
  /\ loc' = [loc EXCEPT ![t] = NoLocals]
  /\ UNCHANGED <<config, symbols, stock_data, last_update, running, refresh_thread,
                 nthreads, ncalls, slept>>

\* Line 183: fetch_stock_data has returned (its value is dropped);
\* time.sleep(config.REFRESH_INTERVAL).
LoopSleep(t) ==
  /\ pc[t] = "ret"
  /\ slept' = [slept EXCEPT ![t] = REFRESH_INTERVAL]
  /\ pc' = [pc EXCEPT ![t] = "sleep"]
  /\ loc' = [loc EXCEPT ![t] = [NoLocals EXCEPT !.cycle = loc[t].cycle,
                                                !.raised = loc[t].raised]]
  /\ UNCHANGED <<config, symbols, stock_data, last_update, running, refresh_thread,
                 nthreads, ncalls>>

\* Mutant: the except clause sits outside the while loop and ends it.
LoopRetrySleep_Exit(t) ==
  /\ pc[t] = "L192"
  /\ slept' = [slept EXCEPT ![t] = RETRY_SLEEP]
  /\ pc' = [pc EXCEPT ![t] = "exit"]
  /\ UNCHANGED <<config, symbols, stock_data, last_update, running, refresh_thread,
                 nthreads, ncalls, loc>>

\* Lines 185-192: the except clause of the loop; time.sleep(30).
LoopRetrySleep(t) ==
  /\ pc[t] = "L192"
  /\ slept' = [slept EXCEPT ![t] = RETRY_SLEEP]
  /\ pc' = [pc EXCEPT ![t] = "sleep"]
  /\ UNCHANGED <<config, symbols, stock_data, last_update, running, refresh_thread,
                 nthreads, ncalls, loc>>

\* time.sleep returns; back to the while test.
LoopWake(t) ==
  /\ pc[t] = "sleep"
  /\ pc' = [pc EXCEPT ![t] = "L169"]
  /\ UNCHANGED <<config, symbols, stock_data, last_update, running, refresh_thread,
                 nthreads, ncalls, slept, loc>>

_background_refresh_loop(t, cycles) ==
  \/ LoopTop(t, cycles)
  \/ FetchStockData(t)
  \/ CallerFault(t)
  \/ LoopSleep(t)
  \/ LoopRetrySleep(t)
  \/ LoopWake(t)

\* ------------------------------------------------- api_refresh (258-296)
\* Flask serves requests once initialize_app has returned (lines 381-390).
Serving == pc[Main] = "serving"

RefreshRequest(t) ==
  /\ pc[t] = "idle"
  /\ Serving
  /\ ncalls[t] < MaxManual
  /\ pc' = [pc EXCEPT ![t] = "call"]
  /\ loc' = [loc EXCEPT ![t] = [NoLocals EXCEPT !.handler = "api_refresh"]]
  /\ UNCHANGED <<config, symbols, stock_data, last_update, running, refresh_thread,
                 nthreads, ncalls, slept>>

\* Line 283: return jsonify(result); the value fetch_stock_data returned is
\* the response, and the handler thread serves the next request.
RefreshRespond(t) ==
  /\ pc[t] = "ret"
  /\ loc[t].handler = "api_refresh"
  /\ pc' = [pc EXCEPT ![t] = "idle"]
  /\ loc' = [loc EXCEPT ![t] = NoLocals]
  /\ UNCHANGED <<config, symbols, stock_data, last_update, running, refresh_thread,
                 nthreads, ncalls, slept>>

\* Lines 285-296: the except clause; a 500 response with success False.
RefreshRespondError(t) ==
  /\ pc[t] = "L293"
  /\ loc' = [loc EXCEPT ![t].success = FALSE, ![t].error = TRUE]
  /\ pc' = [pc EXCEPT ![t] = "resp"]
  /\ UNCHANGED <<config, symbols, stock_data, last_update, running, refresh_thread,
                 nthreads, ncalls, slept>>

\* The response has been sent; the handler thread serves the next request.
RequestDone(t, handler) ==
  /\ pc[t] = "resp"
  /\ loc[t].handler = handler
  /\ pc' = [pc EXCEPT ![t] = "idle"]
  /\ loc' = [loc EXCEPT ![t] = NoLocals]
  /\ UNCHANGED <<config, symbols, stock_data, last_update, running, refresh_thread,
                 nthreads, ncalls, slept>>

api_refresh(t) ==
  \/ RefreshRequest(t)
  \/ FetchStockData(t)
  \/ CallerFault(t)
  \/ RefreshRespond(t)
  \/ RefreshRespondError(t)
  \/ RequestDone(t, "api_refresh")

\* -------------------------------- api_stocks (229-255), sort_stocks (138-152)
\* Lines 232-238: a request arrives and sort_stocks is called.
StocksRequest(t) ==
  /\ pc[t] = "idle"
  /\ Serving
  /\ pc' = [pc EXCEPT ![t] = "L140"]
  /\ loc' = [loc EXCEPT ![t] = [NoLocals EXCEPT !.handler = "api_stocks"]]
  /\ UNCHANGED <<config, symbols, stock_data, last_update, running, refresh_thread,
                 nthreads, ncalls, slept>>

\* Mutant: sort_stocks without its test for an empty snapshot.
IsEmptySnapshot_Never(d) == FALSE

\* Line 140: not stock_data.
IsEmptySnapshot(d) == d = EmptyDict

\* Mutant: sort_stocks fetches when it finds the snapshot empty.
SortStocksCheck_FetchWhenEmpty(t, sort_by) ==
  /\ pc[t] = "L140"
  /\ IF IsEmptySnapshot(stock_data)
       THEN /\ sort_by = "name"
            /\ pc' = [pc EXCEPT ![t] = "call"]
            /\ UNCHANGED loc
       ELSE /\ sort_by = "name"
            /\ pc' = [pc EXCEPT ![t] = "L143"]
            /\ UNCHANGED loc
  /\ UNCHANGED <<config, symbols, stock_data, last_update, running, refresh_thread,
                 nthreads, ncalls, slept>>

\* Lines 140-141: if not stock_data: return [], whatever sort_by is.
SortStocksCheck(t, sort_by) ==
  /\ pc[t] = "L140"
  /\ IF IsEmptySnapshot(stock_data)
       THEN /\ pc' = [pc EXCEPT ![t] = AfterSort(t)]
            /\ loc' = [loc EXCEPT ![t].data = << >>, ![t].sort_by = sort_by]
       ELSE /\ sort_by = "name"
            /\ pc' = [pc EXCEPT ![t] = "L143"]
            /\ UNCHANGED loc
  /\ UNCHANGED <<config, symbols, stock_data, last_update, running, refresh_thread,
                 nthreads, ncalls, slept>>

\* Line 252: 'last_update': last_update.isoformat() if last_update else None.
StocksReadLastUpdate(t) ==
  /\ pc[t] = "L252"
  /\ loc' = [loc EXCEPT ![t].last_update = last_update]
  /\ pc' = [pc EXCEPT ![t] = "L254"]
  /\ UNCHANGED <<config, symbols, stock_data, last_update, running, refresh_thread,
                 nthreads, ncalls, slept>>

\* Line 254, the condition: ... if stock_data else 0.
StocksTotalCheck(t) ==
  /\ pc[t] = "L254"
  /\ pc' = [pc EXCEPT ![t] = IF stock_data = EmptyDict THEN "resp" ELSE "L254len"]
  /\ UNCHANGED <<config, symbols, stock_data, last_update, running, refresh_thread,
                 nthreads, ncalls, slept, loc>>

\* Line 254, the value: len(stock_data).
StocksTotal(t) ==
  /\ pc[t] = "L254len"
  /\ loc' = [loc EXCEPT ![t].total_stocks = Len(stock_data)]
  /\ pc' = [pc EXCEPT ![t] = "resp"]
  /\ UNCHANGED <<config, symbols, stock_data, last_update, running, refresh_thread,
                 nthreads, ncalls, slept>>

\* ------------------------------------------------------- index (199-227)
\* Lines 203-209: a request for / arrives and sort_stocks is called.
IndexRequest(t) ==
  /\ pc[t] = "idle"
  /\ Serving
  /\ pc' = [pc EXCEPT ![t] = "L140"]
  /\ loc' = [loc EXCEPT ![t] = [NoLocals EXCEPT !.handler = "index"]]
  /\ UNCHANGED <<config, symbols, stock_data, last_update, running, refresh_thread,
                 nthreads, ncalls, slept>>

\* Lines 222-227: render_template with stocks, the global last_update (line
\* 224) and total_stocks = len(stocks).
IndexRender(t) ==
  /\ pc[t] = "L209"
  /\ loc' = [loc EXCEPT ![t].last_update = last_update,
                        ![t].total_stocks = Len(loc[t].data)]
  /\ pc' = [pc EXCEPT ![t] = "resp"]
  /\ UNCHANGED <<config, symbols, stock_data, last_update, running, refresh_thread,
                 nthreads, ncalls, slept>>

index(t) ==
  \/ IndexRequest(t)
  \/ \E sort_by \in SortKeys : SortStocksCheck(t, sort_by)
  \/ FormatBegin(t)
  \/ \E sort_by \in SortKeys : FormatStep(t, sort_by)
  \/ IndexRender(t)
  \/ RequestDone(t, "index")

api_stocks(t) ==
  \/ StocksRequest(t)
  \/ \E sort_by \in SortKeys : SortStocksCheck(t, sort_by)
  \/ FormatBegin(t)
  \/ \E sort_by \in SortKeys : FormatStep(t, sort_by)
  \/ StocksReadLastUpdate(t)
  \/ StocksTotalCheck(t)
  \/ StocksTotal(t)
  \/ RequestDone(t, "api_stocks")

\* ------------------------------------------------- api_status (299-324)
\* Lines 302-310: a request arrives.
StatusRequest(t) ==
  /\ pc[t] = "idle"
  /\ Serving
  /\ pc' = [pc EXCEPT ![t] = "L314"]
  /\ loc' = [loc EXCEPT ![t] = [NoLocals EXCEPT !.handler = "api_status"]]
  /\ UNCHANGED <<config, symbols, stock_data, last_update, running, refresh_thread,
                 nthreads, ncalls, slept>>

\* Line 314: 'last_update': last_update.isoformat() if last_update else None.
StatusReadLastUpdate(t) ==
  /\ pc[t] = "L314"
  /\ loc' = [loc EXCEPT ![t].last_update = last_update]
  /\ pc' = [pc EXCEPT ![t] = "L315"]
  /\ UNCHANGED <<config, symbols, stock_data, last_update, running, refresh_thread,
                 nthreads, ncalls, slept>>

\* Line 315, the condition: ... if stock_data else 0.
StatusTotalCheck(t) ==
  /\ pc[t] = "L315"
  /\ pc' = [pc EXCEPT ![t] = IF stock_data = EmptyDict THEN "L317" ELSE "L315len"]
  /\ UNCHANGED <<config, symbols, stock_data, last_update, running, refresh_thread,
                 nthreads, ncalls, slept, loc>>

\* Line 315, the value: len(stock_data).
StatusTotal(t) ==
  /\ pc[t] = "L315len"
  /\ loc' = [loc EXCEPT ![t].total_stocks = Len(stock_data)]
  /\ pc' = [pc EXCEPT ![t] = "L317"]
  /\ UNCHANGED <<config, symbols, stock_data, last_update, running, refresh_thread,
                 nthreads, ncalls, slept>>

\* Line 317: 'background_refresh_running': tracker.running; line 324 sends
\* the response.
StatusReadRunning(t) ==
  /\ pc[t] = "L317"
  /\ loc' = [loc EXCEPT ![t].background_refresh_running = running]
  /\ pc' = [pc EXCEPT ![t] = "resp"]
  /\ UNCHANGED <<config, symbols, stock_data, last_update, running, refresh_thread,
                 nthreads, ncalls, slept>>

api_status(t) ==
  \/ StatusRequest(t)
  \/ StatusReadLastUpdate(t)
  \/ StatusTotalCheck(t)
  \/ StatusTotal(t)
  \/ StatusReadRunning(t)
  \/ RequestDone(t, "api_status")

\* ------------------------------------------------------- the application
initialize_app ==
  \/ FetchStockData(Main)
  \/ CallerFault(Main)
  \/ InitFetchDone
  \/ start_background_refresh(Main)

Next ==
  \/ initialize_app
  \/ \E t \in Loops : _background_refresh_loop(t, MaxLoopCycles)
  \/ \E t \in Handlers : index(t)
  \/ \E t \in Handlers : api_refresh(t)
  \/ \E t \in Handlers : api_stocks(t)
  \/ \E t \in Handlers : api_status(t)

Spec == Init /\ [][Next]_vars

\* ------------------------------------------- the application, one endpoint
\* The application serving POST /api/refresh requests only: the writers of
\* the snapshot (the initial fetch, the background loop, the manual refresh).
NextRefresh ==
  \/ initialize_app
  \/ \E t \in Loops : _background_refresh_loop(t, MaxLoopCycles)
  \/ \E t \in Handlers : api_refresh(t)

SpecRefresh == Init /\ [][NextRefresh]_vars

\* The application serving GET /api/stocks requests only: a reader of the
\* snapshot beside the initial fetch and the background loop.
\* The application serving only its three GET endpoints.
NextRead ==
  \/ initialize_app
  \/ \E t \in Loops : _background_refresh_loop(t, MaxLoopCycles)
  \/ \E t \in Handlers : index(t)
  \/ \E t \in Handlers : api_stocks(t)
  \/ \E t \in Handlers : api_status(t)

SpecRead == Init /\ [][NextRead]_vars

NextStocks ==
  \/ initialize_app
  \/ \E t \in Loops : _background_refresh_loop(t, MaxLoopCycles)
  \/ \E t \in Handlers : api_stocks(t)

SpecStocks == Init /\ [][NextStocks]_vars

\* The application serving GET /api/status requests only.
NextStatus ==
  \/ initialize_app
  \/ \E t \in Loops : _background_refresh_loop(t, MaxLoopCycles)
  \/ \E t \in Handlers : api_status(t)

SpecStatus == Init /\ [][NextStatus]_vars

\* ------------------------------------------------- the scheduler on its own
\* initialize_app and the background loop it starts, with no request served.
\* The thread scheduler runs the loop thread whenever it can take a step,
\* time.sleep returns, and the provider answers every request.
TheLoop == <<"loop", 1>>

NextSched ==
  \/ initialize_app
  \/ _background_refresh_loop(TheLoop, MaxSchedCycles)

SpecSched ==
  /\ Init
  /\ [][NextSched]_vars
  /\ WF_vars(initialize_app)
  /\ WF_vars(_background_refresh_loop(TheLoop, MaxSchedCycles))

\* ------------------------------------------------------------ explicit stop
\* The scheduler on its own with a stop request: the attribute self.running
\* (set at lines 44 and 157) is cleared once it has been set. No line of
\* app.py clears it; the stop is the assignment tracker.running = False made
\* by whoever halts the loop.
Stop ==
  /\ running
  /\ running' = FALSE
  /\ UNCHANGED <<config, symbols, stock_data, last_update, refresh_thread, nthreads,
                 ncalls, slept, loc, pc>>

NextStop ==
  \/ NextSched
  \/ Stop

SpecStop ==
  /\ Init
  /\ [][NextStop]_vars
  /\ WF_vars(initialize_app)
  /\ WF_vars(_background_refresh_loop(TheLoop, MaxSchedCycles))

\* ------------------------------------------ validate_config (utils.py 203-227)
\* bool(v) of a sequence-like value or None.
Truthy(v) == v.type # "NoneType" /\ Len(v.value) > 0

\* isinstance(v, list).
IsInstanceList(v) == v.type = "list"

\* isinstance(v, int); bool is a subclass of int.
IsInstanceInt(v) == v.type \in {"int", "bool"}

\* Lines 214-227: the four checks in their order; "ValueError" when one of
\* them raises, "None" when the function returns.
validate_config(cfg) ==
  IF ~Truthy(cfg.SYMBOLS) \/ ~IsInstanceList(cfg.SYMBOLS)
    THEN "ValueError"
  ELSE IF ~IsInstanceInt(cfg.REFRESH_INTERVAL) \/ cfg.REFRESH_INTERVAL.value < 1
    THEN "ValueError"
  ELSE IF ~IsInstanceInt(cfg.PRECISION) \/ cfg.PRECISION.value < 0
    THEN "ValueError"
  ELSE IF ~IsInstanceInt(cfg.VOLUME_PRECISION) \/ cfg.VOLUME_PRECISION.value < 0
    THEN "ValueError"
  ELSE "None"

\* Mutant: the except clause of the constructor logs and does not re-raise.
WebStockTracker_init_Swallow ==
  /\ pc[Main] = "L196"
  /\ running' = FALSE
  /\ refresh_thread' = 0
  /\ pc' = [pc EXCEPT ![Main] = PhaseEntry(1)]
  /\ UNCHANGED <<config, symbols, stock_data, last_update, nthreads, ncalls,
                 slept, loc>>

\* app.py line 196, tracker = WebStockTracker(), and lines 43-53: the
\* constructor resets the two attributes and validates; a ValueError is
\* logged and re-raised, which ends the import of the module and the process
\* before initialize_app (line 381) and app.run (line 385).
WebStockTracker_init ==
  /\ pc[Main] = "L196"
  /\ running' = FALSE
  /\ refresh_thread' = 0
  /\ pc' = [pc EXCEPT ![Main] = IF validate_config(config) = "ValueError"
                                  THEN "ValueError" ELSE PhaseEntry(1)]
  /\ UNCHANGED <<config, symbols, stock_data, last_update, nthreads, ncalls,
                 slept, loc>>

\* Values the attributes of Config may have been edited to.
SymbolsValues ==
  {Val("list", << >>), Val("list", SubSeq(ConfigSymbols, 1, MaxSymbols)),
   Val("tuple", SubSeq(ConfigSymbols, 1, MaxSymbols)), Val("NoneType", << >>)}

NumberValues ==
  {Val("int", n) : n \in {-1, 0, 1}}
    \cup {Val("float", 1), Val("bool", 1), Val("NoneType", 0)}

\* python app.py from the first line of the module, for any such Config.
InitConfig ==
  /\ config \in [SYMBOLS : SymbolsValues, REFRESH_INTERVAL : NumberValues,
                 PRECISION : NumberValues, VOLUME_PRECISION : NumberValues]
  /\ symbols = config.SYMBOLS.value
  /\ stock_data = EmptyDict
  /\ last_update = NoCycle
  /\ running = FALSE
  /\ refresh_thread = 0
  /\ nthreads = 0
  /\ ncalls = [t \in Threads |-> 0]
  /\ slept = [t \in Loops |-> 0]
  /\ loc = [t \in Threads |-> NoLocals]
  /\ pc = [t \in Threads |-> IF t = Main THEN "L196" ELSE StartPc(t)]

NextConfig ==
  \/ WebStockTracker_init
  \/ initialize_app
  \/ \E t \in Loops : _background_refresh_loop(t, MaxLoopCycles)
  \/ \E t \in Handlers : api_status(t)

SpecConfig == InitConfig /\ [][NextConfig]_vars

\* ---------------------------------------------------- the fetcher on its own
\* fetch_all_stocks called once for a list of distinct symbols, its tasks
\* settling one at a time in any order with any provider answer.
\* The lists of at most n distinct elements of S.
RECURSIVE DistinctLists(_, _)
DistinctLists(S, n) ==
  IF n = 0 THEN {<< >>}
  ELSE LET shorter == DistinctLists(S, n - 1)
           longer == {Append(p[1], p[2]) :
                        p \in {q \in shorter \X S :
                                 /\ Len(q[1]) = n - 1
                                 /\ \A i \in DOMAIN q[1] : q[1][i] # q[2]}}
       IN shorter \cup longer

FetchSymbols == {ConfigSymbols[i] : i \in 1..MaxFetchSymbols}

InitFetch ==
  /\ symbols \in DistinctLists(FetchSymbols, MaxFetchSymbols) \ {<< >>}
  /\ InitCommon
  /\ pc = [t \in Threads |-> StartPc(t)]

NextFetch ==
  \/ FetchBegin(Main)
  \/ \E i \in 1..Len(symbols), resp \in FetchResponses : TaskSettle(Main, i, resp)
  \/ AllSettled(Main) /\ FetchAllReturn(Main, [i \in 1..Len(symbols) |-> RespRaise])

SpecFetch == InitFetch /\ [][NextFetch]_vars

\* -------------------------------------------------- the presenter on its own
\* GET /api/stocks served again and again over one snapshot that no refresh
\* replaces: the empty one of a process whose cycles have all failed, or the
\* mapping one cycle stored for a list of distinct symbols and any provider
\* answers.
SnapshotCycle == CycleOf(Main, 1)

Snapshots(syms) ==
  {fetch_all_stocks(syms,
                    [i \in 1..Len(syms) |->
                       _fetch_single_stock(syms[i], resps[i], SnapshotCycle)],
                    SnapshotCycle).dict :
     resps \in [1..Len(syms) -> SortResponses]}

SortSymbols == {ConfigSymbols[i] : i \in 1..MaxSortSymbols}

InitSort ==
  /\ symbols \in DistinctLists(SortSymbols, MaxSortSymbols) \ {<< >>}
  /\ config = ConfigOf(symbols)
  /\ \/ stock_data = EmptyDict /\ last_update = NoCycle
     \/ stock_data \in Snapshots(symbols) /\ last_update = SnapshotCycle
  /\ running = TRUE
  /\ refresh_thread = 0
  /\ nthreads = 0
  /\ ncalls = [t \in Threads |-> 0]
  /\ slept = [t \in Loops |-> 0]
  /\ loc = [t \in Threads |-> NoLocals]
  /\ pc = [t \in Threads |->
             CASE t = Main -> "serving"
               [] t \in Handlers -> "idle"
               [] t \in Loops -> "off"
               [] OTHER -> "unused"]

NextSort == \E t \in Handlers : api_stocks(t)

SpecSort == InitSort /\ [][NextSort]_vars

\* The formatter on its own: GET /api/stocks served over one snapshot of the
\* tracked symbols, stored by a cycle whose answers were errors, quotes that
\* fell, rose or stood still, and volumes of any size.
FormatSnapshots(syms) ==
  {fetch_all_stocks(syms,
                    [i \in 1..Len(syms) |->
                       _fetch_single_stock(syms[i], resps[i], SnapshotCycle)],
                    SnapshotCycle).dict :
     resps \in [1..Len(syms) -> FormatResponses]}

InitFormat ==
  /\ symbols \in DistinctLists({ConfigSymbols[i] : i \in 1..MaxSymbols},
                               MaxSymbols) \ {<< >>}
  /\ config = ConfigOf(symbols)
  /\ stock_data \in FormatSnapshots(symbols)
  /\ last_update = SnapshotCycle
  /\ running = TRUE
  /\ refresh_thread = 0
  /\ nthreads = 0
  /\ ncalls = [t \in Threads |-> 0]
  /\ slept = [t \in Loops |-> 0]
  /\ loc = [t \in Threads |-> NoLocals]
  /\ pc = [t \in Threads |->
             CASE t = Main -> "serving"
               [] t \in Handlers -> "idle"
               [] t \in Loops -> "off"
               [] OTHER -> "unused"]

SpecFormat == InitFormat /\ [][NextSort]_vars

\* The fetcher on its own with a provider that may also never answer. The
\* event loop and the executor threads run whatever can run.
NextHang ==
  \/ NextFetch
  \/ \E i \in 1..Len(symbols) : TaskHang(Main, i)

SpecHang == InitFetch /\ [][NextHang]_vars /\ WF_vars(NextHang)

\* ------------------------------------- concurrent start_background_refresh
\* The tracker has been constructed and every starter thread calls
\* tracker.start_background_refresh(); the loops it creates run their cycles.
InitRace ==
  /\ symbols = SubSeq(ConfigSymbols, 1, MaxSymbols)
  /\ InitCommon
  /\ pc = [t \in Threads |->
             CASE t \in Starters -> "L156"
               [] t \in Loops -> "off"
               [] OTHER -> "unused"]

NextRace ==
  \/ \E t \in Starters : start_background_refresh(t)
  \/ \E t \in Loops : _background_refresh_loop(t, MaxLoopCycles)

SpecStart == InitRace /\ [][NextRace]_vars


\* ------------------------------------------------- the counts of one cycle
\* One successful call of fetch_stock_data for a list of distinct symbols,
\* the provider answering each symbol with an error, a quote, or a quote
\* whose latest close is 0.
NextCount ==
  \/ FetchBegin(Main)
  \/ \E i \in 1..Len(symbols), resp \in CountResponses : TaskSettle(Main, i, resp)
  \/ AllSettled(Main) /\ FetchAllReturn(Main, [i \in 1..Len(symbols) |-> RespRaise])
  \/ StampLastUpdate(Main)
  \/ CountStep(Main)
  \/ TotalStep(Main)
  \/ FormatBegin(Main)
  \/ FormatStep(Main, "name")
  \/ ReturnSuccess(Main)

SpecCount == InitFetch /\ [][NextCount]_vars

\* ------------------------------------------ the sinks of the instrumentation
\* One call of fetch_stock_data whose span, metric and log calls report to
\* sinks that may raise. Every such call sits inside the try block of the
\* operation it instruments.
\* stock_data.py lines 118-193: a span, metric or log call of task i raises
\* although the provider has answered with resp; the except clause of line
\* 206 turns it into the task's exception.
TaskSinkRaise(t, i, resp) ==
  /\ pc[t] = "gather"
  /\ i \in DOMAIN loc[t].results
  /\ loc[t].results[i] = Pending
  /\ loc' = [loc EXCEPT ![t].results[i] = Raised, ![t].answers[i] = resp]
  /\ UNCHANGED <<config, symbols, stock_data, last_update, running, refresh_thread,
                 nthreads, ncalls, slept, pc>>

\* stock_data.py lines 71, 79-83: a log or span call of fetch_all_stocks
\* raises once gather has completed; fetch_all_stocks has no except clause,
\* so line 68 of app.py raises and nothing is bound to stock_data.
FetchAllSinkRaise(t) ==
  /\ pc[t] = "gather"
  /\ AllSettled(t)
  /\ pc' = [pc EXCEPT ![t] = "L115"]
  /\ UNCHANGED <<config, symbols, stock_data, last_update, running, refresh_thread,
                 nthreads, ncalls, slept, loc>>

\* app.py lines 76-87: a metric, span or log call after the snapshot has been
\* stored raises; control passes to the except clause of line 97.
RecordMetricsRaise(t) ==
  /\ pc[t] = "L91"
  /\ pc' = [pc EXCEPT ![t] = "L115"]
  /\ UNCHANGED <<config, symbols, stock_data, last_update, running, refresh_thread,
                 nthreads, ncalls, slept, loc>>

NextObserve ==
  \/ FetchBegin(Main)
  \/ FetchFault(Main)
  \/ \E i \in 1..Len(symbols), resp \in AppResponses : TaskSettle(Main, i, resp)
  \/ \E i \in 1..Len(symbols), resp \in AppResponses : TaskSinkRaise(Main, i, resp)
  \/ AllSettled(Main) /\ FetchAllReturn(Main, [i \in 1..Len(symbols) |-> RespRaise])
  \/ FetchAllSinkRaise(Main)
  \/ StampLastUpdate(Main)
  \/ CountStep(Main)
  \/ TotalStep(Main)
  \/ RecordMetricsRaise(Main)
  \/ FormatBegin(Main)
  \/ FormatStep(Main, "name")
  \/ ReturnSuccess(Main)
  \/ ReturnFailure(Main)

SpecObserve == InitFetch /\ [][NextObserve]_vars


\* =================================================================== claims
Range(seq) == {seq[i] : i \in DOMAIN seq}

DictGet(d, k) == d[CHOOSE i \in DOMAIN d : d[i].key = k].value

IsSentinel(stock) ==
  /\ stock.price = 0
  /\ stock.change = 0
  /\ stock.change_percent = 0
  /\ stock.volume = 0
  /\ stock.market_cap = None

KeysComplete(d) == DictKeys(d) = Range(symbols) /\ Len(d) = Len(symbols)

\* C1: for every non-empty list of symbols and every combination of
\* per-symbol outcomes, fetch_all_stocks returns once all tasks have settled,
\* never raises, and returns a mapping whose key set is the symbol set and
\* which has len(symbols) entries.
C1_FetchAllTotal ==
  /\ symbols # << >>
  /\ pc[Main] # "L115"
  /\ (pc[Main] = "gather" /\ AllSettled(Main)) => ENABLED NextFetch
  /\ pc[Main] = "L69" => KeysComplete(stock_data)

C1_Witness ==
  /\ pc[Main] = "L69"
  /\ Len(symbols) = MaxFetchSymbols
  /\ \E i \in DOMAIN symbols : IsException(loc[Main].results[i])
  /\ \E i \in DOMAIN symbols : ~IsException(loc[Main].results[i])
  /\ KeysComplete(stock_data)

\* C2: the mapping fetch_all_stocks returns holds a sentinel quote (price,
\* change, change_percent and volume 0, market_cap None) for every symbol
\* whose task failed and, for every other symbol, the quote that symbol's own
\* task produced; when all tasks fail every entry is a sentinel.
C2_FailureIsolation ==
  pc[Main] = "L69" =>
    \A i \in DOMAIN symbols :
      LET result == loc[Main].results[i]
          entry == DictGet(stock_data, symbols[i])
      IN /\ symbols[i] \in DictKeys(stock_data)
         /\ result.state = "exception" => IsSentinel(entry)
         /\ result.state = "ok" => entry = result.value
         /\ result.state \in {"exception", "ok"}

C2_Witness ==
  /\ pc[Main] = "L69"
  /\ Len(symbols) >= 2
  /\ \A i \in DOMAIN symbols : loc[Main].results[i].state = "exception"
  /\ \A i \in DOMAIN stock_data : IsSentinel(stock_data[i].value)

\* C3: the list a reader builds from the snapshot (sort_stocks or
\* _format_stock_data_for_web), also while a refresh replaces the snapshot,
\* consists of the records of one refresh cycle only and, once complete, has
\* one record for every symbol of that cycle's mapping.
OneCycle(data) == \A i, j \in DOMAIN data : data[i].cycle = data[j].cycle

WholeMapping(data) ==
  /\ Len(data) = Len(symbols)
  /\ {data[i].symbol : i \in DOMAIN data} = Range(symbols)

ListComplete(t) ==
  \/ IsReader(t) /\ pc[t] \in {"L252", "L254", "L254len", "resp"}
                 /\ loc[t].data # << >>
  \/ ~IsReader(t) /\ pc[t] \in {"L92", "ret"} /\ ~loc[t].raised

C3_ReaderSeesOneSnapshot ==
  \A t \in Threads :
    /\ OneCycle(loc[t].data)
    /\ ListComplete(t) => WholeMapping(loc[t].data)

C3_Witness ==
  \E t \in Handlers :
    /\ IsReader(t)
    /\ pc[t] = "L123"
    /\ Len(loc[t].data) >= 1
    /\ stock_data # loc[t].it
    /\ stock_data[1].value.cycle # loc[t].data[1].cycle

\* C4: in every state a request handler can observe, the quotes of the
\* snapshot mapping and the last-refresh timestamp come from the same refresh
\* cycle, and so do the stock list and the last_update of one /api/stocks
\* response.
C4_SnapshotOneUnit ==
  Serving =>
    /\ \A i \in DOMAIN stock_data : stock_data[i].value.cycle = last_update
    /\ \A t \in Handlers :
         (IsReader(t) /\ pc[t] = "resp") =>
           \A i \in DOMAIN loc[t].data :
             loc[t].data[i].cycle = loc[t].last_update

\* C5: however many threads call start_background_refresh, also at the same
\* time, at most one background loop thread is ever created.
C5_AtMostOneLoop == nthreads <= 1

\* C6: a cycle-level exception never ends the background loop; while the
\* running flag is set, after every cycle, failed or not, another cycle
\* starts; and once a cycle's fetch has not raised, whatever happened in the
\* cycles before it, that cycle's snapshot is in place.
CycleOver(t) == pc[t] \in {"ret", "L192", "sleep"}

CycleSucceeded(t) ==
  /\ pc[t] \in {"ret", "sleep"}
  /\ loc[t].cycle = CycleOf(t, ncalls[t])
  /\ ~loc[t].raised

SnapshotOf(t) ==
  /\ KeysComplete(stock_data)
  /\ \A i \in DOMAIN stock_data : stock_data[i].value.cycle = loc[t].cycle
  /\ last_update = loc[t].cycle

C6_SchedulerResilience ==
  /\ [](running => pc[TheLoop] # "exit")
  /\ [](CycleSucceeded(TheLoop) => SnapshotOf(TheLoop))
  /\ (running /\ CycleOver(TheLoop) /\ ncalls[TheLoop] < MaxSchedCycles)
       ~> (pc[TheLoop] = "call")

C6_Witness ==
  /\ pc[TheLoop] = "L69"
  /\ ncalls[TheLoop] = 2
  /\ last_update = NoCycle
  /\ KeysComplete(stock_data)

\* C7: after a background cycle whose fetch raised a cycle-level exception
\* the loop sleeps the 30 second retry delay, and it sleeps REFRESH_INTERVAL
\* only after a cycle without a cycle-level exception.
C7_ShortDelayAfterFailure ==
  pc[TheLoop] = "sleep" =>
    (loc[TheLoop].raised <=> slept[TheLoop] = RETRY_SLEEP)

\* C8: at most one fetch_all_stocks call is in flight at any time, counting
\* the initial fetch, the background cycles and the manual refresh requests.
InFlight(t) == pc[t] = "gather"

C8_OneFetchInFlight == Cardinality({t \in Fetchers : InFlight(t)}) <= 1

\* C8 as amended: at most one fetch_all_stocks call made by the initial fetch
\* or by a background cycle is in flight at any time; a manual refresh may
\* overlap with it.
C8_ScheduledFetchesSequential ==
  Cardinality({t \in {Main} \cup Loops : InFlight(t)}) <= 1

C8_Witness ==
  /\ InFlight(TheLoop)
  /\ \E t \in Handlers : InFlight(t)

\* C9: the value a refresh returns is built from the mapping and the
\* timestamp this same cycle stored: every record of its data list and its
\* last_update belong to the returning cycle, also when a scheduled and a
\* manual refresh overlap.
C9_ResultFromOwnCycle ==
  \A t \in Fetchers :
    (pc[t] = "ret" /\ loc[t].success) =>
      /\ loc[t].last_update = loc[t].cycle
      /\ \A i \in DOMAIN loc[t].data : loc[t].data[i].cycle = loc[t].cycle

\* C10: the snapshot mapping is empty only while no cycle has stored a
\* mapping, and then the timestamp is absent; otherwise its key set is the
\* configured symbol set; once it is not empty it never becomes empty or
\* partial again.
HasStored(t) ==
  /\ pc[t] \in {"L69", "L72", "L73", "L91", "L123", "L92", "ret"}
  /\ ~IsReader(t)
  /\ ~loc[t].raised

SnapshotKeySet ==
  /\ stock_data = EmptyDict =>
       last_update = NoCycle /\ \A t \in Fetchers : ~HasStored(t)
  /\ stock_data # EmptyDict => KeysComplete(stock_data)

C10_SnapshotKeySet ==
  /\ []SnapshotKeySet
  /\ [][stock_data # EmptyDict => KeysComplete(stock_data')]_vars

C10_Witness ==
  /\ KeysComplete(stock_data)
  /\ \E i \in DOMAIN stock_data : IsSentinel(stock_data[i].value)
  /\ \E t \in Loops : pc[t] = "L115" /\ ncalls[t] = 1

\* C11: a GET /api/status response sent while no refresh cycle has completed
\* carries last_update null and total_stocks 0; every read a status request
\* makes once a cycle has stamped last_update yields a non-null last_update
\* and total_stocks equal to the number of configured symbols, and a stamped
\* last_update is never unset.
IsStatus(t) == loc[t].handler = "api_status"

StatusBeforeFirstCycle ==
  \A t \in Handlers :
    (IsStatus(t) /\ pc[t] = "resp" /\ last_update = NoCycle) =>
      /\ loc[t].last_update = NoCycle
      /\ loc[t].total_stocks = 0

StatusAfterCycle ==
  \A t \in Handlers :
    (IsStatus(t) /\ last_update # NoCycle) =>
      /\ last_update' # NoCycle
      /\ (pc[t] = "L314" /\ pc'[t] = "L315") => loc'[t].last_update # NoCycle
      /\ (pc[t] = "L315") => pc'[t] # "L317"
      /\ (pc[t] = "L315len" /\ pc'[t] = "L317") =>
           loc'[t].total_stocks = Len(symbols)

C11_StatusReflectsCycles ==
  /\ []StatusBeforeFirstCycle
  /\ [][StatusAfterCycle]_vars

\* C12: fetch_all_stocks eventually returns also when the provider never
\* answers for some symbol, and the mapping it returns then holds a sentinel
\* quote for every symbol whose task did not produce a quote.
FetchAllReturned == pc[Main] \in {"L69", "L115"}

C12_FetchBoundedByTimeout ==
  /\ <>FetchAllReturned
  /\ [](pc[Main] = "L69" =>
         \A i \in DOMAIN symbols :
           loc[Main].results[i].state # "ok" =>
             IsSentinel(DictGet(stock_data, symbols[i])))

\* C13: for every non-empty snapshot the list sort_stocks returns for the key
\* price has non-increasing price, for change non-increasing change_percent,
\* for name non-decreasing company_name; it holds exactly the snapshot's
\* records, one per symbol, and records with equal keys keep the order they
\* have in the snapshot.
Position(d, k) == CHOOSE i \in DOMAIN d : d[i].key = k

SortReturned(t) ==
  /\ IsReader(t)
  /\ pc[t] \in {"L252", "L254", "L254len", "resp"}

Ordered(data, sort_by, i, j) ==
  CASE sort_by = "price" -> data[i].price >= data[j].price
    [] sort_by = "change" -> data[i].change_percent >= data[j].change_percent
    [] sort_by = "name" ->
         NameRank(data[i].company_name) <= NameRank(data[j].company_name)
    [] OTHER -> TRUE

SameKey(data, sort_by, i, j) ==
  CASE sort_by = "price" -> data[i].price = data[j].price
    [] sort_by = "change" -> data[i].change_percent = data[j].change_percent
    [] sort_by = "name" -> data[i].company_name = data[j].company_name
    [] OTHER -> FALSE

IsPermutationOfSnapshot(data) ==
  /\ Len(data) = Len(stock_data)
  /\ {data[i].symbol : i \in DOMAIN data} = DictKeys(stock_data)
  /\ \A i \in DOMAIN data :
       data[i] = FormatRecord(DictGet(stock_data, data[i].symbol))

C13_PresenterOrdering ==
  \A t \in Handlers :
    (SortReturned(t) /\ stock_data # EmptyDict) =>
      LET data == loc[t].data
          sort_by == loc[t].sort_by
      IN /\ IsPermutationOfSnapshot(data)
         /\ \A i, j \in DOMAIN data :
              i < j =>
                /\ Ordered(data, sort_by, i, j)
                /\ SameKey(data, sort_by, i, j) =>
                     Position(stock_data, data[i].symbol)
                       < Position(stock_data, data[j].symbol)

C13_Witness ==
  \E t \in Handlers :
    /\ SortReturned(t)
    /\ loc[t].sort_by = "price"
    /\ Len(loc[t].data) = MaxSortSymbols
    /\ loc[t].data[1].price > loc[t].data[2].price
    /\ loc[t].data[2].price = loc[t].data[3].price
    /\ loc[t].data[1].symbol = stock_data[3].key

\* C14: for a sort key other than name, price and change sort_stocks returns
\* the records of the snapshot in the snapshot's insertion order, which is the
\* order of the configured symbol list.
C14_UnknownKeyKeepsOrder ==
  \A t \in Handlers :
    (/\ SortReturned(t)
     /\ stock_data # EmptyDict
     /\ loc[t].sort_by \notin {"name", "price", "change"}) =>
      /\ loc[t].data = [i \in DOMAIN stock_data |-> FormatRecord(stock_data[i].value)]
      /\ [i \in DOMAIN loc[t].data |-> loc[t].data[i].symbol] = symbols

C14_Witness ==
  \E t \in Handlers :
    /\ SortReturned(t)
    /\ loc[t].sort_by = "volume"
    /\ Len(loc[t].data) = MaxSortSymbols
    /\ loc[t].data[1].price < loc[t].data[2].price
    /\ NameRank(loc[t].data[1].company_name) > NameRank(loc[t].data[2].company_name)

\* C15: while the snapshot is empty sort_stocks returns the empty list for
\* every sort key, recognised or not, and does not raise: its next step from
\* the test of line 140 is the return of [].
EmptySnapshotEmptyList ==
  \A t \in Handlers :
    (SortReturned(t) /\ stock_data = EmptyDict) => loc[t].data = << >>

EmptySnapshotReturns ==
  \A t \in Handlers :
    (/\ IsReader(t)
     /\ pc[t] = "L140"
     /\ stock_data = EmptyDict
     /\ pc'[t] # pc[t]) =>
      /\ pc'[t] = "L252"
      /\ loc'[t].data = << >>

C15_EmptySnapshot ==
  /\ []EmptySnapshotEmptyList
  /\ [][EmptySnapshotReturns]_vars

C15_Witness ==
  \E t \in Handlers :
    /\ SortReturned(t)
    /\ stock_data = EmptyDict
    /\ loc[t].sort_by = "volume"
    /\ loc[t].data = << >>

\* C16: every successfully fetched quote has change = price - previous_close,
\* change_percent = change / previous_close * 100 when previous_close is not 0
\* and change_percent = 0 when it is 0; its previous_close is the
\* second-most-recent close when the history has two points, otherwise the
\* previous close the provider reports.
FetchedQuotes ==
  {i \in DOMAIN loc[Main].results : loc[Main].results[i].state = "ok"}

QuoteArithmetic(q) ==
  /\ q.change = q.price - q.previous_close
  /\ q.previous_close # 0 =>
       q.change_percent * q.previous_close = q.change * 100
  /\ q.previous_close = 0 => q.change_percent = 0

C16_QuoteInvariant ==
  \A i \in FetchedQuotes :
    LET q == loc[Main].results[i].value
        a == loc[Main].answers[i]
    IN /\ QuoteArithmetic(q)
       /\ q.price = a.hist[Len(a.hist)].Close
       /\ q.previous_close =
            IF Len(a.hist) >= 2 THEN a.hist[Len(a.hist) - 1].Close
            ELSE a.previousClose

\* C16 as amended: with a single historical point and no previous close
\* reported by the provider, previous_close is the current price.
C16_QuoteInvariantWithFallback ==
  \A i \in FetchedQuotes :
    LET q == loc[Main].results[i].value
        a == loc[Main].answers[i]
    IN /\ QuoteArithmetic(q)
       /\ q.price = a.hist[Len(a.hist)].Close
       /\ q.previous_close =
            IF Len(a.hist) >= 2 THEN a.hist[Len(a.hist) - 1].Close
            ELSE IF a.previousClose # None THEN a.previousClose
            ELSE q.price

C16_Witness ==
  /\ pc[Main] = "L69"
  /\ \E i \in FetchedQuotes : loc[Main].answers[i] = RespOneRowNoPrev
  /\ \E i \in FetchedQuotes : loc[Main].answers[i] = RespTwoRows
  /\ \E i \in FetchedQuotes :
       /\ loc[Main].answers[i] = RespOneRow
       /\ loc[Main].results[i].value.change_percent = 25

\* C17: a POST /api/refresh request never ends in an unhandled exception:
\* whatever the fetch does the handler goes on to a response, and the payload
\* has success False with an error message, or success True with the data of
\* all symbols and a non-null last_update.
IsRefresh(t) == loc[t].handler = "api_refresh"

RefreshPayload(t) == IsRefresh(t) /\ pc[t] \in {"ret", "resp"}

C17_RefreshAlwaysStructured ==
  \A t \in Handlers :
    /\ IsRefresh(t) => ENABLED api_refresh(t)
    /\ RefreshPayload(t) =>
         /\ loc[t].success \in BOOLEAN
         /\ ~loc[t].success => loc[t].error
         /\ loc[t].success =>
              /\ ~loc[t].error
              /\ Len(loc[t].data) = Len(symbols)
              /\ loc[t].last_update # NoCycle

C17_Witness ==
  \E t \in Handlers :
    /\ RefreshPayload(t)
    /\ pc[t] = "ret"
    /\ loc[t].raised
    /\ ~loc[t].success
    /\ loc[t].error
    /\ stock_data # EmptyDict

\* ---------------------------------------------------------------------- C18
\* C18: the observability layer only observes. The mapping fetch_all_stocks
\* stores is the one the provider's answers determine (a quote for every
\* symbol the provider answered well for, a sentinel for the others), and
\* fetch_stock_data returns its failure value only when the fetch itself has
\* raised, also when a span, metric or log call raises.
UnobservedMapping(t) ==
  fetch_all_stocks(symbols,
                   [i \in 1..Len(symbols) |->
                      _fetch_single_stock(symbols[i], loc[t].answers[i],
                                          loc[t].cycle)],
                   loc[t].cycle).dict

C18_ObservabilityOnlyObserves ==
  /\ pc[Main] = "L69" => stock_data = UnobservedMapping(Main)
  /\ pc[Main] = "ret" => (loc[Main].success <=> ~loc[Main].raised)

\* ---------------------------------------------------------------------- C19
\* C19: explicit stop. While the running flag is cleared the background loop
\* begins no refresh cycle; the loop ends only at the while test of the top
\* of a cycle and only with the flag cleared, so a cycle in progress is never
\* cut off; and once the flag is cleared a started loop finishes the cycle in
\* progress, if any, and ends.
CycleInProgress(t) == pc[t] \notin {"off", "L169", "exit"}

NoCycleBeginsWhenStopped ==
  \A t \in Loops : ~running => ~(pc[t] = "L169" /\ pc'[t] = "call")

EndsOnlyAtTop ==
  \A t \in Loops :
    (pc[t] # "exit" /\ pc'[t] = "exit") => (pc[t] = "L169" /\ ~running)

C19_ExplicitStop ==
  /\ [][NoCycleBeginsWhenStopped]_vars
  /\ [][EndsOnlyAtTop]_vars
  /\ (~running /\ pc[TheLoop] # "off") ~> (pc[TheLoop] = "exit")

C19_Witness ==
  /\ ~running
  /\ pc[TheLoop] = "exit"
  /\ ncalls[TheLoop] = 1
  /\ slept[TheLoop] = REFRESH_INTERVAL
  /\ last_update = CycleOf(TheLoop, 1)

\* ---------------------------------------------------------------------- C20
\* C20: configuration validation is fatal at startup. The construction of
\* the tracker ends in a ValueError exactly when SYMBOLS is empty or not a
\* list, REFRESH_INTERVAL is not an integer >= 1, or PRECISION or
\* VOLUME_PRECISION is not a non-negative integer; and then no fetch is made,
\* no background refresh is started and no request is served.
IsInteger(v) == v.type \in {"int", "bool"}

InvalidConfig(cfg) ==
  \/ Len(cfg.SYMBOLS.value) = 0
  \/ cfg.SYMBOLS.type # "list"
  \/ ~(IsInteger(cfg.REFRESH_INTERVAL) /\ cfg.REFRESH_INTERVAL.value >= 1)
  \/ ~(IsInteger(cfg.PRECISION) /\ cfg.PRECISION.value >= 0)
  \/ ~(IsInteger(cfg.VOLUME_PRECISION) /\ cfg.VOLUME_PRECISION.value >= 0)

ConstructionFailed == pc[Main] = "ValueError"

C20_ConfigValidationFatal ==
  /\ pc[Main] # "L196" => (ConstructionFailed <=> InvalidConfig(config))
  /\ ConstructionFailed =>
       /\ ~running
       /\ nthreads = 0
       /\ \A t \in Loops : pc[t] = "off"
       /\ \A t \in Handlers : pc[t] = "idle" /\ ~ENABLED api_status(t)
       /\ \A t \in Threads : ncalls[t] = 0
       /\ stock_data = EmptyDict

C20_Witness ==
  /\ ConstructionFailed
  /\ config.SYMBOLS = Val("list", SubSeq(ConfigSymbols, 1, MaxSymbols))
  /\ config.REFRESH_INTERVAL = Val("int", 1)
  /\ config.PRECISION = Val("int", 0)
  /\ config.VOLUME_PRECISION = Val("float", 1)

\* ---------------------------------------------------------------------- C21
\* C21: a refresh cycle that fails at the cycle level leaves the snapshot
\* untouched. With the calls of fetch_stock_data made one after the other
\* (the initial fetch, then the cycles of one loop), a call that returns
\* success False has written neither a quote nor last_update, no step of a
\* call on its failure path changes them, and the last_update it reports is
\* the global one, which names a cycle that stored its mapping.
FailedReturn(t) == pc[t] = "ret" /\ ~loc[t].success

WroteNothing(t) ==
  /\ last_update # loc[t].cycle
  /\ \A i \in DOMAIN stock_data : stock_data[i].value.cycle # loc[t].cycle
  /\ loc[t].last_update = last_update
  /\ last_update # NoCycle =>
       \A i \in DOMAIN stock_data : stock_data[i].value.cycle = last_update

FailurePathKeepsSnapshot ==
  \A t \in Fetchers :
    (pc'[t] # pc[t] /\ (pc[t] = "L115" \/ pc'[t] = "L115"))
      => UNCHANGED <<stock_data, last_update>>

NotReplaced(d) == Cardinality({i \in DOMAIN d : ~IsSentinel(d[i].value)})

Counted(t) ==
  \/ pc[t] \in {"L73", "L91", "L123", "L92"}
  \/ pc[t] = "ret" /\ loc[t].success

FetcherCountsAgree ==
  pc[Main] = "L69" =>
    /\ successful_count(loc[Main].results) = NotReplaced(stock_data)
    /\ successful_count(loc[Main].results) + error_count(loc[Main].results)
         = Len(symbols)

TotalIsAllSymbols ==
  (Counted(Main) /\ pc[Main] # "L73") => loc[Main].total = Len(symbols)

C22_SuccessfulCount ==
  /\ FetcherCountsAgree
  /\ TotalIsAllSymbols
  /\ Counted(Main) => loc[Main].successful = NotReplaced(stock_data)

\* ---------------------------------------------------------------------- C23
\* C23: every view record carries its quote's symbol, company_name, price,
\* change, change_percent, volume and market_cap unchanged, and adds
\* volume_millions = volume / 1,000,000, is_positive = (change > 0) and
\* is_negative = (change < 0); no record has both flags true, and the record
\* of a sentinel quote has both false.
ViewOf(rec, q) ==
  /\ rec.symbol = q.symbol
  /\ rec.company_name = q.company_name
  /\ rec.price = q.price
  /\ rec.change = q.change
  /\ rec.change_percent = q.change_percent
  /\ rec.volume = q.volume
  /\ rec.market_cap = q.market_cap
  /\ rec.volume_millions.whole * MILLION + rec.volume_millions.rest = q.volume
  /\ rec.volume_millions.rest \in 0..(MILLION - 1)
  /\ rec.is_positive <=> q.change > 0
  /\ rec.is_negative <=> q.change < 0
  /\ ~(rec.is_positive /\ rec.is_negative)
  /\ IsSentinel(q) => (~rec.is_positive /\ ~rec.is_negative)

C23_ViewRecord ==
  \A t \in Handlers : \A i \in DOMAIN loc[t].data :
    /\ loc[t].data[i].symbol \in DictKeys(stock_data)
    /\ ViewOf(loc[t].data[i], DictGet(stock_data, loc[t].data[i].symbol))

C23_Witness ==
  \E t \in Handlers :
    /\ pc[t] = "L252"
    /\ Len(loc[t].data) = 2
    /\ \E i, j \in DOMAIN loc[t].data :
         /\ IsSentinel(DictGet(stock_data, loc[t].data[i].symbol))
         /\ loc[t].data[j].volume_millions = [whole |-> 1, rest |-> 500000]
         /\ loc[t].data[j].is_positive

\* ---------------------------------------------------------------------- C24
\* C24: read-only request handling. A step of the handler of GET /, GET
\* /api/stocks or GET /api/status, sort_stocks included, leaves stock_data
\* and last_update as they are and starts no fetch; stock_data and
\* last_update change only at lines 68 and 69 of a fetch_stock_data call,
\* which no such handler makes.
ReadOnlyHandlers == {"index", "api_stocks", "api_status"}

IsReadOnly(t) == loc[t].handler \in ReadOnlyHandlers

InFetchStockData(t) ==
  pc[t] \in {"call", "gather", "L69", "L72", "L73", "L91", "L92", "L115", "ret"}

ReadersOnlyRead ==
  \A t \in Handlers :
    ((IsReadOnly(t) \/ loc'[t].handler \in ReadOnlyHandlers)
       /\ (pc'[t] # pc[t] \/ loc'[t] # loc[t]))
      => /\ UNCHANGED <<stock_data, last_update>>
         /\ ncalls'[t] = ncalls[t]

OnlyFetchWrites ==
  (stock_data' # stock_data \/ last_update' # last_update) =>
    \E t \in Fetchers :
      /\ ~IsReadOnly(t)
      /\ \/ pc[t] = "gather" /\ pc'[t] = "L69" /\ last_update' = last_update
         \/ pc[t] = "L69" /\ pc'[t] = "L72" /\ stock_data' = stock_data

C24_ReadOnlyHandlers ==
  /\ [](\A t \in Handlers :
          IsReadOnly(t) => ~InFetchStockData(t))
  /\ [][ReadersOnlyRead]_vars
  /\ [][OnlyFetchWrites]_vars

C24_Witness ==
  \E t \in Handlers :
    /\ IsIndex(t)
    /\ pc[t] = "resp"
    /\ Len(loc[t].data) = Len(symbols)
    /\ loc[t].last_update = CycleOf(TheLoop, 1)
    /\ ncalls[t] = 0

\* ---------------------------------------------------------------------- C25
\* C25: results are never cross-assigned between symbols. In the mapping
\* fetch_all_stocks returns, whatever the order in which the tasks settled,
\* the quote stored under key k has symbol k and k's display name, be it a
\* fetched quote or a sentinel.
OwnQuote(k, stock) ==
  /\ stock.symbol = k
  /\ stock.company_name =
       IF k \in DOMAIN COMPANY_NAMES THEN COMPANY_NAMES[k] ELSE k

C25_NoCrossAssignment ==
  pc[Main] = "L69" =>
    \A i \in DOMAIN stock_data : OwnQuote(stock_data[i].key, stock_data[i].value)

C25_Witness ==
  /\ pc[Main] = "L69"
  /\ Len(symbols) = MaxFetchSymbols
  /\ loc[Main].results[1].state = "ok"
  /\ loc[Main].results[Len(symbols)].state = "exception"
  /\ \A i \in DOMAIN symbols : stock_data[i].key = symbols[i]

====
